---- MODULE Spec2Model ----
(***************************************************************************)
(* Model of reports/generate_report.py: the __main__ driver, the chart     *)
(* renderer generate_charts(df) and the document assembler create_pdf().   *)
(* One run is a sequential program; pc is its position.  Failures of the   *)
(* environment (savefig, FPDF.image, FPDF.output raising) are inputs       *)
(* chosen with \E in the step that makes the call.                         *)
(***************************************************************************)
EXTENDS Integers, Sequences, FiniteSets, TLC

VARIABLES
    pc,        \* position of the run
    ip,        \* index of the next statement of create_pdf's body
    caller,    \* entry point of the run: "main", "generate_charts", "create_pdf"
    csv,       \* the file CSV_FILE: "missing", "unreadable" or "ok"
    csvData,   \* the table stored in CSV_FILE (the argument of generate_charts)
    df,        \* the in-memory DataFrame
    disk,      \* names of the output files that exist in the working directory
    written,   \* files written by this run
    attempted, \* charts whose rendering block has started
    failed,    \* charts whose rendering block raised
    pie,       \* wedges of Figure 4b, in drawing order: [label, count]
    hist,      \* data of Figure 5: df_time['hour']
    histDone,  \* df_time has been computed (line 92 executed)
    log,       \* FPDF calls made by create_pdf, in order
    embedded,  \* images FPDF.image embedded
    msgs,      \* console output, in order
    gcRaised,  \* an exception left generate_charts
    escaped    \* an exception left the entry point uncaught

vars == <<pc, ip, caller, csv, csvData, df, disk, written, attempted, failed,
          pie, hist, histDone, log, embedded, msgs, gcRaised, escaped>>

----------------------------------------------------------------------------
(* Bounds of the model *)

MaxRows == 3

MaxRowsMain == 2

MaxMissing == 1

----------------------------------------------------------------------------
(* Configuration and fixed names *)

CSV_FILE == "mqtt_captured_data.csv"

OUTPUT_PDF == "Professional_Report.pdf"

FIG1 == "fig1_code.png"

FIG2 == "fig2_broker.png"

FIG3 == "fig3_payload.png"

FIG4 == "fig4_qos.png"

FIG5 == "fig5_time.png"

ChartFiles == {FIG1, FIG2, FIG3, FIG4, FIG5}

ChartOrder == <<FIG1, FIG2, FIG3, FIG4, FIG5>>

Files == ChartFiles \cup {OUTPUT_PDF}

ExpectedCols == {"broker", "payload_type", "qos", "retain", "timestamp"}

Msg(kind, arg) == [kind |-> kind, arg |-> arg]

----------------------------------------------------------------------------
(* Timestamps are character sequences; pd.to_datetime with                 *)
(* format='%H:%M:%S', errors='coerce' parses them.                         *)

NaT == -1

DigitVal == [c \in {"0", "1", "2", "3", "4", "5", "6", "7", "8", "9"} |->
               CASE c = "0" -> 0 [] c = "1" -> 1 [] c = "2" -> 2 [] c = "3" -> 3
                 [] c = "4" -> 4 [] c = "5" -> 5 [] c = "6" -> 6 [] c = "7" -> 7
                 [] c = "8" -> 8 [] c = "9" -> 9]

Timestamps ==
    { <<"2", "3", ":", "0", "0", ":", "0", "0">>,
      <<"1", "0", ":", "0", "5", ":", "0", "0">>,
      <<"9", ":", "0", "5", ":", "0", "7">>,
      <<"n", "o", "t", "-", "a", "-", "t", "i", "m", "e">>,
      <<"2", "4", ":", "0", "0", ":", "0", "0">> }

MainTimestamps ==
    { <<"2", "3", ":", "0", "0", ":", "0", "0">>,
      <<"b", "a", "d">> }

\* A %H, %M or %S field: one or two decimal digits; its value, or NaT.
FieldVal(f) ==
    IF Len(f) \in {1, 2} /\ \A i \in 1..Len(f) : f[i] \in DOMAIN DigitVal
    THEN IF Len(f) = 1 THEN DigitVal[f[1]]
         ELSE 10 * DigitVal[f[1]] + DigitVal[f[2]]
    ELSE NaT

\* ParseHour reading the %M field where it should read %H
ParseHourMinuteField(ts) ==
    LET colons == {i \in 1..Len(ts) : ts[i] = ":"}
    IN  IF Cardinality(colons) # 2 THEN NaT
        ELSE LET p1 == CHOOSE i \in colons : \A j \in colons : i <= j
                 p2 == CHOOSE i \in colons : \A j \in colons : j <= i
                 h  == FieldVal(SubSeq(ts, 1, p1 - 1))
                 m  == FieldVal(SubSeq(ts, p1 + 1, p2 - 1))
                 s  == FieldVal(SubSeq(ts, p2 + 1, Len(ts)))
             IN  IF h \in 0..23 /\ m \in 0..59 /\ s \in 0..59 THEN m ELSE NaT

\* pd.to_datetime(ts, format='%H:%M:%S', errors='coerce').hour
ParseHour(ts) ==
    LET colons == {i \in 1..Len(ts) : ts[i] = ":"}
    IN  IF Cardinality(colons) # 2 THEN NaT
        ELSE LET p1 == CHOOSE i \in colons : \A j \in colons : i <= j
                 p2 == CHOOSE i \in colons : \A j \in colons : j <= i
                 h  == FieldVal(SubSeq(ts, 1, p1 - 1))
                 m  == FieldVal(SubSeq(ts, p1 + 1, p2 - 1))
                 s  == FieldVal(SubSeq(ts, p2 + 1, Len(ts)))
             IN  IF h \in 0..23 /\ m \in 0..59 /\ s \in 0..59 THEN h ELSE NaT

\* DropNa without the dropna call
DropNaKeepAll(hours) == hours

\* df.dropna(subset=['hour'])['hour']
DropNa(hours) == SelectSeq(hours, LAMBDA h : h # NaT)

----------------------------------------------------------------------------
(* Tables *)

Rows(pool) == [retain : BOOLEAN, timestamp : pool]

ColSets == {ExpectedCols \ m : m \in {x \in SUBSET ExpectedCols : Cardinality(x) <= MaxMissing}}

Tables(n, pool) ==
    {[cols |-> c, rows |-> r] : c \in ColSets, r \in UNION {[1..k -> Rows(pool)] : k \in 0..n}}

NoTable == [cols |-> {}, rows |-> <<>>]

NoDf == [cols |-> {}, rows |-> <<>>, hour |-> <<>>]

CountRetain(rows, v) == Cardinality({i \in 1..Len(rows) : rows[i].retain = v})

FirstIndex(rows, v) == CHOOSE i \in 1..Len(rows) : rows[i].retain = v /\ \A j \in 1..(i - 1) : rows[j].retain # v

\* df['retain'].value_counts(): one entry per value that occurs, by
\* descending count; equal counts keep the order of first appearance.
ValueCounts(rows) ==
    LET present == {v \in BOOLEAN : CountRetain(rows, v) > 0}
        entry(v) == [value |-> v, count |-> CountRetain(rows, v)]
        before(a, b) == \/ CountRetain(rows, a) > CountRetain(rows, b)
                        \/ /\ CountRetain(rows, a) = CountRetain(rows, b)
                           /\ FirstIndex(rows, a) < FirstIndex(rows, b)
    IN  IF present = {} THEN <<>>
        ELSE IF Cardinality(present) = 1
             THEN <<entry(CHOOSE v \in present : TRUE)>>
             ELSE IF before(TRUE, FALSE) THEN <<entry(TRUE), entry(FALSE)>>
                  ELSE <<entry(FALSE), entry(TRUE)>>

PieLabels == <<"Not Retained", "Retained">>

----------------------------------------------------------------------------
(* Initial states *)

InitRun ==
    /\ ip = 1
    /\ written = {}
    /\ attempted = {}
    /\ failed = {}
    /\ pie = <<>>
    /\ hist = <<>>
    /\ histDone = FALSE
    /\ log = <<>>
    /\ embedded = {}
    /\ msgs = <<>>
    /\ gcRaised = FALSE
    /\ escaped = FALSE

\* python generate_report.py
Init ==
    /\ pc = "main"
    /\ caller = "main"
    /\ csv \in {"missing", "unreadable", "ok"}
    /\ IF csv = "ok" THEN csvData \in Tables(MaxRowsMain, MainTimestamps)
                     ELSE csvData = NoTable
    /\ disk \in SUBSET Files
    /\ df = NoDf
    /\ InitRun

\* generate_charts(df) called with a table
InitCharts ==
    /\ pc = "fig1"
    /\ caller = "generate_charts"
    /\ csv = "ok"
    /\ csvData \in Tables(MaxRows, Timestamps)
    /\ disk = {}
    /\ df = [cols |-> csvData.cols, rows |-> csvData.rows, hour |-> <<>>]
    /\ InitRun

\* create_pdf() called in a working directory holding any of the files
InitPdf ==
    /\ pc = "pdf"
    /\ caller = "create_pdf"
    /\ csv = "ok"
    /\ csvData = NoTable
    /\ disk \in SUBSET Files
    /\ df = NoDf
    /\ InitRun

----------------------------------------------------------------------------
(* __main__ *)

\* if os.path.exists(CSV_FILE): ... else: print(error)
Main ==
    /\ pc = "main"
    /\ IF csv # "missing"
       THEN /\ msgs' = Append(msgs, Msg("Loading", ""))
            /\ pc' = "read_csv"
       ELSE /\ msgs' = Append(msgs, Msg("ErrorNotFound", CSV_FILE))
            /\ pc' = "done"
    /\ UNCHANGED <<ip, caller, csv, csvData, df, disk, written, attempted, failed,
                   pie, hist, histDone, log, embedded, gcRaised, escaped>>

\* ReadCsv without the try/except around pd.read_csv
ReadCsvIgnoreError ==
    /\ pc = "read_csv"
    /\ df' = [cols |-> csvData.cols, rows |-> csvData.rows, hour |-> <<>>]
    /\ msgs' = Append(msgs, Msg("GeneratingCharts", ""))
    /\ pc' = "fig1"
    /\ UNCHANGED <<ip, caller, csv, csvData, disk, written, attempted, failed,
                   pie, hist, histDone, log, embedded, gcRaised, escaped>>

\* try: df = pd.read_csv(CSV_FILE) ... except Exception: print(error)
ReadCsv ==
    /\ pc = "read_csv"
    /\ IF csv = "ok"
       THEN /\ df' = [cols |-> csvData.cols, rows |-> csvData.rows, hour |-> <<>>]
            /\ msgs' = Append(msgs, Msg("GeneratingCharts", ""))
            /\ pc' = "fig1"
       ELSE /\ msgs' = Append(msgs, Msg("ErrorProcessing", CSV_FILE))
            /\ pc' = "done"
            /\ df' = df
    /\ UNCHANGED <<ip, caller, csv, csvData, disk, written, attempted, failed,
                   pie, hist, histDone, log, embedded, gcRaised, escaped>>

----------------------------------------------------------------------------
(* generate_charts *)

\* An exception raised in the blocks of Figures 1 to 4 has no handler in
\* generate_charts: it leaves the function.  Under __main__ the handler of
\* line 188 prints it and the run ends without create_pdf.
ChartRaise(fig) ==
    /\ attempted' = attempted \cup {fig}
    /\ failed' = failed \cup {fig}
    /\ gcRaised' = TRUE
    /\ pc' = "done"
    /\ IF caller = "main"
       THEN /\ msgs' = Append(msgs, Msg("ErrorProcessing", fig))
            /\ escaped' = escaped
       ELSE /\ msgs' = msgs
            /\ escaped' = TRUE
    /\ UNCHANGED <<ip, caller, csv, csvData, df, disk, written, pie, hist,
                   histDone, log, embedded>>

\* plt.savefig(fig) returned
ChartSaved(fig, next) ==
    /\ attempted' = attempted \cup {fig}
    /\ disk' = disk \cup {fig}
    /\ written' = written \cup {fig}
    /\ pc' = next
    /\ UNCHANGED <<ip, caller, csv, csvData, df, failed, hist, histDone, log,
                   embedded, msgs, gcRaised, escaped>>

Fig1 ==
    /\ pc = "fig1"
    /\ \E ok \in BOOLEAN :
         IF ok THEN ChartSaved(FIG1, "fig2") /\ pie' = pie
         ELSE ChartRaise(FIG1)

Fig2 ==
    /\ pc = "fig2"
    /\ \E ok \in BOOLEAN :
         IF ok /\ "broker" \in df.cols
         THEN ChartSaved(FIG2, "fig3") /\ pie' = pie
         ELSE ChartRaise(FIG2)

Fig3 ==
    /\ pc = "fig3"
    /\ \E ok \in BOOLEAN :
         IF ok /\ {"broker", "payload_type"} \subseteq df.cols
         THEN ChartSaved(FIG3, "fig4") /\ pie' = pie
         ELSE ChartRaise(FIG3)

\* axes[1].pie(retain_counts, labels=['Not Retained', 'Retained'], ...):
\* the labels are paired with the counts by position; pie raises
\* ValueError unless there are as many labels as counts.
PieWedges(rows) ==
    LET rc == ValueCounts(rows)
    IN  [i \in 1..Len(rc) |-> [label |-> PieLabels[i], count |-> rc[i].count]]

Fig4 ==
    /\ pc = "fig4"
    /\ \E ok \in BOOLEAN :
         IF /\ ok
            /\ {"qos", "retain"} \subseteq df.cols
            /\ Len(ValueCounts(df.rows)) = Len(PieLabels)
         THEN ChartSaved(FIG4, "fig5") /\ pie' = PieWedges(df.rows)
         ELSE ChartRaise(FIG4)

\* generate_charts returns to its caller
ChartsReturn ==
    IF caller = "main"
    THEN /\ pc' = "pdf"
         /\ ip' = 1
    ELSE /\ pc' = "done"
         /\ ip' = ip

Fig5 ==
    /\ pc = "fig5"
    /\ attempted' = attempted \cup {FIG5}
    /\ IF "timestamp" \notin df.cols
       THEN /\ msgs' = Append(msgs, Msg("WarnTimeChart", FIG5))
                         \o (IF caller = "main" THEN <<Msg("BuildingPdf", "")>> ELSE <<>>)
            /\ UNCHANGED <<df, hist, histDone, disk, written>>
       ELSE LET hours == [i \in 1..Len(df.rows) |-> ParseHour(df.rows[i].timestamp)]
                df_time == DropNa(hours)
            IN  /\ df' = [df EXCEPT !.hour = hours, !.cols = @ \cup {"hour"}]
                /\ hist' = df_time
                /\ histDone' = TRUE
                /\ IF df_time # <<>>
                   THEN \E ok \in BOOLEAN :
                          IF ok
                          THEN /\ disk' = disk \cup {FIG5}
                               /\ written' = written \cup {FIG5}
                               /\ msgs' = msgs \o (IF caller = "main" THEN <<Msg("BuildingPdf", "")>> ELSE <<>>)
                          ELSE /\ msgs' = Append(msgs, Msg("WarnTimeChart", FIG5))
                                            \o (IF caller = "main" THEN <<Msg("BuildingPdf", "")>> ELSE <<>>)
                               /\ UNCHANGED <<disk, written>>
                   ELSE /\ msgs' = Append(msgs, Msg("WarnSkipFig5", FIG5))
                                     \o (IF caller = "main" THEN <<Msg("BuildingPdf", "")>> ELSE <<>>)
                        /\ UNCHANGED <<disk, written>>
    /\ ChartsReturn
    /\ UNCHANGED <<caller, csv, csvData, failed, pie, log, embedded, gcRaised, escaped>>

----------------------------------------------------------------------------
(* create_pdf *)

Stmt(op, arg) == [op |-> op, arg |-> arg]

\* The body of create_pdf before the final try block, statement by statement
PdfSteps ==
    << Stmt("add_page", ""),
       Stmt("chapter_title", "sec1_title"), Stmt("chapter_body", "sec1_body"),
       Stmt("chapter_title", "sec2_title"), Stmt("chapter_body", "sec2_body"),
       Stmt("add_image_safe", FIG1),
       Stmt("chapter_title", "sec3_title"), Stmt("chapter_body", "sec3_body"),
       Stmt("add_image_safe", FIG2),
       Stmt("add_page", ""),
       Stmt("chapter_title", "sec4_title"), Stmt("chapter_body", "sec4_body"),
       Stmt("add_image_safe", FIG3),
       Stmt("add_image_safe", FIG4),
       Stmt("chapter_title", "sec5_title"), Stmt("chapter_body", "sec5_body"),
       Stmt("add_image_safe", FIG5),
       Stmt("chapter_title", "sec6_title"), Stmt("chapter_body", "sec6_body") >>

AtStmt(op) == pc = "pdf" /\ ip \in 1..Len(PdfSteps) /\ PdfSteps[ip].op = op

\* A statement that only appends to the document
AppendStmt ==
    /\ log' = Append(log, PdfSteps[ip])
    /\ ip' = ip + 1
    /\ UNCHANGED <<pc, caller, csv, csvData, df, disk, written, attempted, failed,
                   pie, hist, histDone, embedded, msgs, gcRaised, escaped>>

AddPage ==
    /\ AtStmt("add_page")
    /\ AppendStmt

ChapterTitle ==
    /\ AtStmt("chapter_title")
    /\ AppendStmt

ChapterBody ==
    /\ AtStmt("chapter_body")
    /\ AppendStmt

\* ImageStep without the try/except around self.image
ImageStepNoTry(path, ok) ==
    IF path \in disk
    THEN /\ log' = Append(log, Stmt("image", path))
         /\ msgs' = msgs
         /\ IF ok
            THEN /\ embedded' = embedded \cup {path}
                 /\ ip' = ip + 1
                 /\ UNCHANGED <<pc, escaped>>
            ELSE /\ embedded' = embedded
                 /\ ip' = ip
                 /\ pc' = "done"
                 /\ escaped' = TRUE
    ELSE /\ msgs' = Append(msgs, Msg("ImageNotFound", path))
         /\ ip' = ip + 1
         /\ UNCHANGED <<log, embedded, pc, escaped>>

\* ImageStep without the os.path.exists test
ImageStepNoExistsCheck(path, ok) ==
    /\ log' = Append(log, Stmt("image", path))
    /\ ip' = ip + 1
    /\ IF ok /\ path \in disk
       THEN /\ embedded' = embedded \cup {path}
            /\ msgs' = msgs
       ELSE /\ embedded' = embedded
            /\ msgs' = Append(msgs, Msg("ErrorAddingImage", path))
    /\ UNCHANGED <<pc, escaped>>

\* ReportPDF.add_image_safe(image_path); ok: self.image does not raise
ImageStep(path, ok) ==
    /\ ip' = ip + 1
    /\ IF path \in disk
       THEN /\ log' = Append(log, Stmt("image", path))
            /\ IF ok
               THEN /\ embedded' = embedded \cup {path}
                    /\ msgs' = msgs
               ELSE /\ embedded' = embedded
                    /\ msgs' = Append(msgs, Msg("ErrorAddingImage", path))
       ELSE /\ msgs' = Append(msgs, Msg("ImageNotFound", path))
            /\ UNCHANGED <<log, embedded>>
    /\ UNCHANGED <<pc, escaped>>

AddImageSafe ==
    /\ AtStmt("add_image_safe")
    /\ \E ok \in BOOLEAN : ImageStep(PdfSteps[ip].arg, ok)
    /\ UNCHANGED <<caller, csv, csvData, df, disk, written, attempted, failed,
                   pie, hist, histDone, gcRaised>>

\* OutputStep with the success banner printed before pdf.output
OutputStepBannerFirst(ok) ==
    /\ log' = Append(log, Stmt("output", OUTPUT_PDF))
    /\ IF ok
       THEN /\ disk' = disk \cup {OUTPUT_PDF}
            /\ written' = written \cup {OUTPUT_PDF}
            /\ msgs' = msgs \o <<Msg("Success", OUTPUT_PDF), Msg("UploadHint", "")>>
       ELSE /\ msgs' = msgs \o <<Msg("Success", OUTPUT_PDF), Msg("ErrorSavingPdf", OUTPUT_PDF)>>
            /\ UNCHANGED <<disk, written>>

\* try: pdf.output(OUTPUT_PDF, 'F'); print(success) except: print(error)
OutputStep(ok) ==
    /\ log' = Append(log, Stmt("output", OUTPUT_PDF))
    /\ IF ok
       THEN /\ disk' = disk \cup {OUTPUT_PDF}
            /\ written' = written \cup {OUTPUT_PDF}
            /\ msgs' = msgs \o <<Msg("Success", OUTPUT_PDF), Msg("UploadHint", "")>>
       ELSE /\ msgs' = Append(msgs, Msg("ErrorSavingPdf", OUTPUT_PDF))
            /\ UNCHANGED <<disk, written>>

\* Output that does not leave create_pdf
OutputRepeats ==
    /\ pc = "pdf"
    /\ ip = Len(PdfSteps) + 1
    /\ \E ok \in BOOLEAN : OutputStep(ok)
    /\ pc' = pc
    /\ UNCHANGED <<ip, caller, csv, csvData, df, attempted, failed, pie, hist,
                   histDone, embedded, gcRaised, escaped>>

Output ==
    /\ pc = "pdf"
    /\ ip = Len(PdfSteps) + 1
    /\ \E ok \in BOOLEAN : OutputStep(ok)
    /\ pc' = "done"
    /\ UNCHANGED <<ip, caller, csv, csvData, df, attempted, failed, pie, hist,
                   histDone, embedded, gcRaised, escaped>>

----------------------------------------------------------------------------
(* Specifications *)

NextCharts == Fig1 \/ Fig2 \/ Fig3 \/ Fig4 \/ Fig5

NextPdf == AddPage \/ ChapterTitle \/ ChapterBody \/ AddImageSafe \/ Output

Next == Main \/ ReadCsv \/ NextCharts \/ NextPdf

\* the script run as __main__
Spec == Init /\ [][Next]_vars

\* generate_charts applied to a table
SpecCharts == InitCharts /\ [][NextCharts]_vars

\* create_pdf applied to a working directory
SpecPdf == InitPdf /\ [][NextPdf]_vars

----------------------------------------------------------------------------
(* Vocabulary of the properties *)

HasMsg(kind, arg) == \E i \in 1..Len(msgs) : msgs[i] = Msg(kind, arg)

HasKind(kind) == \E i \in 1..Len(msgs) : msgs[i].kind = kind

ErrorKinds == {"ErrorNotFound", "ErrorProcessing", "ErrorSavingPdf", "ErrorAddingImage"}

ErrorCount == Cardinality({i \in 1..Len(msgs) : msgs[i].kind \in ErrorKinds})

OutputCalls == {i \in 1..Len(log) : log[i].op = "output"}

OutputInvoked == OutputCalls # {}

IsDigitChar(c) == c \in {"0", "1", "2", "3", "4", "5", "6", "7", "8", "9"}

\* ts is written HH:MM:SS with HH in 00..23, MM and SS in 00..59
IsHHMMSS(ts) ==
    /\ Len(ts) = 8
    /\ ts[3] = ":" /\ ts[6] = ":"
    /\ \A i \in {1, 2, 4, 5, 7, 8} : IsDigitChar(ts[i])
    /\ 10 * DigitVal[ts[1]] + DigitVal[ts[2]] <= 23
    /\ DigitVal[ts[4]] <= 5
    /\ DigitVal[ts[7]] <= 5

HourOf(ts) == 10 * DigitVal[ts[1]] + DigitVal[ts[2]]

\* ts holds a character no time has, or not three fields
Malformed(ts) ==
    \/ \E i \in 1..Len(ts) : ~IsDigitChar(ts[i]) /\ ts[i] # ":"
    \/ Cardinality({i \in 1..Len(ts) : ts[i] = ":"}) # 2

NoParseableTimestamp ==
    \/ "timestamp" \notin csvData.cols
    \/ \A i \in 1..Len(csvData.rows) : ParseHour(csvData.rows[i].timestamp) = NaT

RECURSIVE Known(_)
\* the entries of a column that are not missing, in order
Known(col) ==
    IF col = <<>> THEN <<>>
    ELSE IF Head(col) = NaT THEN Known(Tail(col))
         ELSE <<Head(col)>> \o Known(Tail(col))

SectionTitles == <<"sec1_title", "sec2_title", "sec3_title", "sec4_title", "sec5_title", "sec6_title">>

SectionBodies == <<"sec1_body", "sec2_body", "sec3_body", "sec4_body", "sec5_body", "sec6_body">>

\* the images that follow each section
ImageSlots == <<(<<>>), <<FIG1>>, <<FIG2>>, <<FIG3, FIG4>>, <<FIG5>>, (<<>>)>>

RECURSIVE ExpectedFrom(_, _)
\* sections k..6, each followed by those of its images that are present
ExpectedFrom(k, present) ==
    IF k > Len(SectionTitles) THEN <<>>
    ELSE <<Stmt("chapter_title", SectionTitles[k]), Stmt("chapter_body", SectionBodies[k])>>
         \o [i \in 1..Len(SelectSeq(ImageSlots[k], LAMBDA f : f \in present)) |->
               Stmt("image", SelectSeq(ImageSlots[k], LAMBDA f : f \in present)[i])]
         \o ExpectedFrom(k + 1, present)

SectionsAndImages == SelectSeq(log, LAMBDA e : e.op \in {"chapter_title", "chapter_body", "image"})

\* the statement of create_pdf that handles image f
SlotOf(f) == CHOOSE i \in 1..Len(PdfSteps) : PdfSteps[i] = Stmt("add_image_safe", f)

----------------------------------------------------------------------------
(* Properties *)

\* C1: in a run where the CSV exists and read_csv succeeds, a chart that
\* fails never aborts document assembly: the finished run has called
\* pdf.output.
C1_ChartFailureNeverAbortsAssembly ==
    (pc = "done" /\ caller = "main" /\ csv = "ok") => OutputInvoked

\* C2: every chart is an independent fallible step: when chart k raises,
\* the exception is caught inside generate_charts and every later chart is
\* still attempted.
C2_LaterChartsStillAttempted ==
    pc = "done" =>
        /\ ~gcRaised
        /\ \A k \in 1..Len(ChartOrder) :
             ChartOrder[k] \in failed =>
                \A j \in (k + 1)..Len(ChartOrder) : ChartOrder[j] \in attempted

\* C3: when the CSV is missing or unreadable no chart step and no document
\* step executes, the run writes no file, and exactly one error message is
\* reported.
C3_AbortBeforeAnyStep ==
    csv # "ok" =>
        /\ attempted = {}
        /\ log = <<>>
        /\ written = {}
        /\ ~escaped
        /\ ErrorCount <= 1
        /\ pc = "done" => ErrorCount = 1

C3_Witness ==
    /\ pc = "done"
    /\ csv = "unreadable"
    /\ HasKind("ErrorProcessing")
    /\ disk # {}

\* C4: a failure of pdf.output is caught and reported, the success banner
\* is then not printed, and no exception leaves the run; the banner is
\* printed only when pdf.output wrote the document.
C4_OutputFailureReported ==
    /\ ~escaped
    /\ HasKind("Success") => OUTPUT_PDF \in written
    /\ (pc = "done" /\ OutputInvoked) =>
          \/ OUTPUT_PDF \in written /\ HasKind("Success") /\ ~HasKind("ErrorSavingPdf")
          \/ OUTPUT_PDF \notin written /\ ~HasKind("Success") /\ HasKind("ErrorSavingPdf")

C4_Witness ==
    /\ pc = "done"
    /\ OutputInvoked
    /\ OUTPUT_PDF \notin written
    /\ HasKind("ErrorSavingPdf")
    /\ ~HasKind("Success")

\* C5: add_image_safe never aborts document assembly: an existing file is
\* embedded or, when embedding raises, the error is logged; a missing file
\* is noted and nothing is embedded; in each case create_pdf goes on to
\* every later section and image step and to pdf.output.
C5_AddImageSafeNeverAborts ==
    /\ ~escaped
    /\ pc = "pdf" => ENABLED NextPdf
    /\ pc = "done" =>
          /\ OutputInvoked
          /\ \A k \in 1..Len(SectionTitles) :
                \E i \in 1..Len(log) : \E j \in (i + 1)..Len(log) :
                    /\ log[i] = Stmt("chapter_title", SectionTitles[k])
                    /\ log[j] = Stmt("chapter_body", SectionBodies[k])
    /\ \A f \in ChartFiles :
          ip > SlotOf(f) =>
             IF f \in disk
             THEN /\ \E i \in 1..Len(log) : log[i] = Stmt("image", f)
                  /\ f \in embedded <=> ~HasMsg("ErrorAddingImage", f)
                  /\ ~HasMsg("ImageNotFound", f)
             ELSE /\ f \notin embedded
                  /\ HasMsg("ImageNotFound", f)
                  /\ ~HasMsg("ErrorAddingImage", f)

C5_Witness ==
    /\ pc = "done"
    /\ OutputInvoked
    /\ FIG1 \notin disk /\ HasMsg("ImageNotFound", FIG1)
    /\ FIG2 \in disk /\ HasMsg("ErrorAddingImage", FIG2)
    /\ FIG3 \in embedded
    /\ \E i \in 1..Len(log) : log[i] = Stmt("chapter_body", "sec6_body")

\* C6: the document is a function of the set of chart files present: the
\* six sections appear in the order 1..6 with their titles and bodies, fig1
\* follows section 2, fig2 section 3, fig3 then fig4 section 4, fig5
\* section 5, and only the images of files that are present are placed.
C6_AssemblyDeterminedByPresentFiles ==
    pc = "done" =>
        /\ SectionsAndImages = ExpectedFrom(1, disk \cap ChartFiles)
        /\ embedded \subseteq disk \cap ChartFiles

C6_Witness ==
    /\ pc = "done"
    /\ disk \cap ChartFiles = {FIG2, FIG5}
    /\ embedded = {FIG2, FIG5}
    /\ Len(SectionsAndImages) = 14

\* C7: once the time-chart step has derived the hours, a record whose
\* timestamp is HH:MM:SS has its hour of day, a malformed timestamp has
\* none, the histogram data are the hours of the records that have one, in
\* order, and the table still holds every row.
C7_HourExtraction ==
    histDone =>
        /\ df.rows = csvData.rows
        /\ Len(df.hour) = Len(df.rows)
        /\ \A i \in 1..Len(df.rows) :
              /\ IsHHMMSS(df.rows[i].timestamp) => df.hour[i] = HourOf(df.rows[i].timestamp)
              /\ Malformed(df.rows[i].timestamp) => df.hour[i] = NaT
        /\ hist = Known(df.hour)

C7_Witness ==
    /\ histDone
    /\ Len(df.rows) = 3
    /\ \E i \in 1..3 : df.rows[i].timestamp = <<"n", "o", "t", "-", "a", "-", "t", "i", "m", "e">>
    /\ hist = <<23, 23>>
    /\ FIG5 \in written

\* C8: when no record has a parseable timestamp, the finished run has not
\* written fig5_time.png, has printed a warning, no exception has left
\* generate_charts, and document assembly has run.
C8_NoParseableTimestampSkipsFig5 ==
    (pc = "done" /\ caller = "main" /\ csv = "ok" /\ NoParseableTimestamp) =>
        /\ FIG5 \notin written
        /\ HasKind("WarnSkipFig5") \/ HasKind("WarnTimeChart")
        /\ ~gcRaised
        /\ OutputInvoked

\* C9: in the rendered pie chart the wedge labelled 'Retained' has the
\* count of the retained records and the wedge labelled 'Not Retained' the
\* count of the others.
C9_PieLabelsMatchCounts ==
    FIG4 \in written =>
        \A i \in 1..Len(pie) :
            /\ pie[i].label = "Retained" => pie[i].count = CountRetain(csvData.rows, TRUE)
            /\ pie[i].label = "Not Retained" => pie[i].count = CountRetain(csvData.rows, FALSE)

\* C10: document assembly starts only after all five chart attempts have
\* completed; pdf.output is called at most once and is the last call made
\* on the document.
C10_AssemblyAfterChartsOutputLast ==
    /\ (pc = "pdf" \/ log # <<>>) => attempted = ChartFiles /\ ~gcRaised
    /\ Cardinality(OutputCalls) <= 1
    /\ \A i \in OutputCalls : i = Len(log)
    /\ OutputInvoked => pc = "done"

C10_Witness ==
    /\ pc = "done"
    /\ caller = "main"
    /\ OutputInvoked
    /\ attempted = ChartFiles
    /\ FIG5 \notin written
    /\ Len(log) = 20

====
